---- MODULE Spec2Model ----
(***************************************************************************)
(* DevLog: the local store (src/src/db.py), the summarizer (src/src/ai.py) *)
(* and the daily sync pipeline (src/src/github_sync.py), with the CLI      *)
(* handlers of devlog.py that drive them.                                  *)
(*                                                                         *)
(* Time is counted in milliseconds, the resolution of SQLite's             *)
(* julianday('now'); CURRENT_TIMESTAMP has a resolution of one second.     *)
(* Text is modelled as a sequence of whitespace-free tokens (a command),   *)
(* as an atomic string (a learning's content), as a sequence of characters *)
(* (the --tags argument and each tag) or as a sequence of bytes (a history *)
(* file under the tail reader).                                            *)
(***************************************************************************)
EXTENDS Integers, Sequences, FiniteSets, TLC

VARIABLES
    now,        \* the wall clock, in milliseconds
    learnings,  \* table learnings, in rowid order
    learned,    \* ghost: learned[i] is the input that created learnings[i]
    commands,   \* table commands, in rowid order
    lastOp,     \* ghost: the last operation, its arguments and its result
    pc,         \* trigger_daily_sync: the statement the run is at
    env,        \* the environment of the sync run: the shell history, whether
                \* an API key resolves, the number of runs started
    run,        \* the sync run's locals and what it has done so far
    repo,       \* ~/.devlog/repo: the directory, its files and its git history
    tail,       \* collect_shell_history: the file read and the reader's locals
    procs       \* two CLI processes inside store_raw_command

vars == <<now, learnings, learned, commands, lastOp, pc, env, run, repo, tail, procs>>

----------------------------------------------------------------------------
(* Bounds of the model *)

MaxDays == 4
MaxMillis == 1
MaxLearnings == 2
MaxReviews == 2
MaxSinceDays == 2
MaxCommands == 2
MaxRuns == 2
MaxHistory == 2
MaxCommits == 2
MaxFileBytes == 4
MaxTailLines == 3
MaxCollectLines == 1
MaxExtra == 1
MaxFilterCommands == 2

(* Constants of the program and of its clock *)

MsPerSecond == 1000
SecondsPerDay == 86400
MsPerDay == SecondsPerDay * MsPerSecond
ReviewIntervalDays == 3

None == [none |-> TRUE]

----------------------------------------------------------------------------
(* Helpers *)

Range(s) == {s[i] : i \in 1..Len(s)}

RECURSIVE Lists(_, _)
\* the sequences of up to n elements of S
Lists(S, n) ==
    IF n = 0 THEN {<<>>}
    ELSE LET shorter == Lists(S, n - 1)
         IN  shorter \cup {Append(h, l) : h \in shorter, l \in S}

----------------------------------------------------------------------------
(* SQLite's clock *)

\* CURRENT_TIMESTAMP: 'YYYY-MM-DD HH:MM:SS', the clock cut to the second
CURRENT_TIMESTAMP(t) == t - (t % MsPerSecond)

\* julianday('now') - julianday(stamp), in milliseconds
julianday_diff(t, stamp) == t - stamp

\* the calendar day of a time, and the milliseconds since its midnight
Days(t) == t \div MsPerDay
Millis(t) == t % MsPerDay

----------------------------------------------------------------------------
(* json.dumps / json.loads of a list of strings: the JSON text is a        *)
(* sequence of lexical tokens.                                             *)

Punct(p) == [t |-> "punct", v |-> <<p>>]
JStr(s) == [t |-> "string", v |-> s]

RECURSIVE json_items(_)
json_items(tags) ==
    IF tags = <<>> THEN <<>>
    ELSE IF Len(tags) = 1 THEN <<JStr(tags[1])>>
    ELSE <<JStr(tags[1]), Punct(",")>> \o json_items(Tail(tags))

json_dumps(tags) == <<Punct("[")>> \o json_items(tags) \o <<Punct("]")>>

RECURSIVE json_array(_)
\* the values of `string (, string)*`, the inside of an array
json_array(toks) ==
    IF toks = <<>> THEN <<>>
    ELSE IF Len(toks) = 1 THEN <<toks[1].v>>
    ELSE <<toks[1].v>> \o json_array(SubSeq(toks, 3, Len(toks)))

json_loads(text) == json_array(SubSeq(text, 2, Len(text) - 1))

----------------------------------------------------------------------------
(* src/src/db.py: table learnings *)

\* add_learning without its tags: the column keeps its default '[]'
add_learning_notags(L, content, tags, t) ==
    Append(L, [id |-> Len(L) + 1, content |-> content, tags |-> json_dumps(<<>>),
               timestamp |-> CURRENT_TIMESTAMP(t),
               last_reviewed |-> CURRENT_TIMESTAMP(t), review_count |-> 0])

\* INSERT INTO learnings (content, tags): the id is AUTOINCREMENT and no row
\* is ever deleted, so the new rowid is the number of rows plus one
add_learning(L, content, tags, t) ==
    Append(L, [id |-> Len(L) + 1, content |-> content, tags |-> json_dumps(tags),
               timestamp |-> CURRENT_TIMESTAMP(t),
               last_reviewed |-> CURRENT_TIMESTAMP(t), review_count |-> 0])

IsDue(row, t) == julianday_diff(t, row.last_reviewed) > ReviewIntervalDays * MsPerDay

\* get_due_flashcard without its WHERE and ORDER BY
get_due_flashcard_any(L, t) ==
    IF L = <<>> THEN {None} ELSE {L[i] : i \in 1..Len(L)}

\* SELECT ... WHERE julianday('now') - julianday(last_reviewed) > 3
\* ORDER BY last_reviewed ASC LIMIT 1: the rows the query may return (SQL
\* leaves the order of equal keys open), or None
get_due_flashcard(L, t) ==
    LET due == {i \in 1..Len(L) : IsDue(L[i], t)}
        first == {i \in due : \A j \in due : L[i].last_reviewed <= L[j].last_reviewed}
    IN  IF due = {} THEN {None} ELSE {L[i] : i \in first}

\* mark_flashcard_reviewed without its WHERE id = ?
mark_flashcard_reviewed_all(L, learning_id, t) ==
    [i \in 1..Len(L) |->
        [L[i] EXCEPT !.last_reviewed = CURRENT_TIMESTAMP(t),
                     !.review_count = L[i].review_count + 1]]

\* UPDATE learnings SET last_reviewed = CURRENT_TIMESTAMP,
\* review_count = review_count + 1 WHERE id = ?
mark_flashcard_reviewed(L, learning_id, t) ==
    [i \in 1..Len(L) |->
        IF L[i].id = learning_id
        THEN [L[i] EXCEPT !.last_reviewed = CURRENT_TIMESTAMP(t),
                          !.review_count = L[i].review_count + 1]
        ELSE L[i]]

RECURSIVE SortDesc(_, _)
\* the indices of idx ordered by timestamp, newest first (equal timestamps
\* in rowid order)
SortDesc(L, idx) ==
    IF idx = {} THEN <<>>
    ELSE LET m == CHOOSE i \in idx :
                    \A j \in idx : \/ L[i].timestamp > L[j].timestamp
                                   \/ L[i].timestamp = L[j].timestamp /\ i <= j
         IN  <<L[m]>> \o SortDesc(L, idx \ {m})

\* SELECT * FROM learnings WHERE julianday('now') - julianday(timestamp) <= ?
\* ORDER BY timestamp DESC; each row's tags are still the JSON text
get_learnings_since(L, days, t) ==
    SortDesc(L, {i \in 1..Len(L) : julianday_diff(t, L[i].timestamp) <= days * MsPerDay})

----------------------------------------------------------------------------
(* src/src/db.py: table commands.  A command text is the sequence of its   *)
(* whitespace-separated tokens.                                            *)

\* store_raw_command without the SELECT: every call inserts
store_raw_command_nodedup(C, source, command, t) ==
    Append(C, [id |-> Len(C) + 1, source |-> source, command |-> command,
               timestamp |-> CURRENT_TIMESTAMP(t), processed |-> FALSE])

\* store_raw_command with a SELECT that leaves out processed = 0
store_raw_command_anyrow(C, source, command, t) ==
    IF \E i \in 1..Len(C) : C[i].command = command
    THEN C
    ELSE Append(C, [id |-> Len(C) + 1, source |-> source, command |-> command,
                    timestamp |-> CURRENT_TIMESTAMP(t), processed |-> FALSE])

\* SELECT id FROM commands WHERE command = ? AND processed = 0; if there is
\* no such row, INSERT INTO commands (source, command)
store_raw_command(C, source, command, t) ==
    IF \E i \in 1..Len(C) : C[i].command = command /\ ~C[i].processed
    THEN C
    ELSE Append(C, [id |-> Len(C) + 1, source |-> source, command |-> command,
                    timestamp |-> CURRENT_TIMESTAMP(t), processed |-> FALSE])

RECURSIVE SortAsc(_, _)
\* the rows of idx ordered by timestamp, oldest first (equal timestamps in
\* rowid order)
SortAsc(C, idx) ==
    IF idx = {} THEN <<>>
    ELSE LET m == CHOOSE i \in idx :
                    \A j \in idx : \/ C[i].timestamp < C[j].timestamp
                                   \/ C[i].timestamp = C[j].timestamp /\ i <= j
         IN  <<C[m]>> \o SortAsc(C, idx \ {m})

\* SELECT * FROM commands WHERE processed = 0 ORDER BY timestamp ASC
get_unprocessed_commands(C) == SortAsc(C, {i \in 1..Len(C) : ~C[i].processed})

\* mark_commands_processed without its WHERE id IN (...)
mark_commands_processed_all(C, command_ids) ==
    IF command_ids = {} THEN C
    ELSE [i \in 1..Len(C) |-> [C[i] EXCEPT !.processed = TRUE]]

\* `if not command_ids: return`, else
\* UPDATE commands SET processed = 1 WHERE id IN (command_ids)
mark_commands_processed(C, command_ids) ==
    IF command_ids = {} THEN C
    ELSE [i \in 1..Len(C) |->
            IF C[i].id \in command_ids THEN [C[i] EXCEPT !.processed = TRUE] ELSE C[i]]

----------------------------------------------------------------------------
(* src/src/collector.py: the validity filter and the collection of the     *)
(* shell history.  A history line is a command, single-spaced.             *)

\* the number of characters of a token
CharLen(tok) ==
    CASE tok = ":" -> 1
      [] tok \in {"ls", "cd", "LS", "CD", "-f"} -> 2
      [] tok \in {"git", "-la", "pwd", "PWD"} -> 3
      [] tok \in {"make", "test", "push"} -> 4
      [] tok \in {"status", "monkey"} -> 6
      [] OTHER -> 8

RECURSIVE StrLen(_)
\* len(cmd) for the stripped command: its tokens and the spaces between
StrLen(cmd) ==
    IF cmd = <<>> THEN 0
    ELSE IF Len(cmd) = 1 THEN CharLen(cmd[1])
    ELSE CharLen(cmd[1]) + 1 + StrLen(Tail(cmd))

\* str.lower()
Lower(tok) ==
    CASE tok = "LS" -> "ls" [] tok = "CD" -> "cd" [] tok = "PWD" -> "pwd"
      [] tok = "--PASSWORD" -> "--password" [] tok = "API_KEY=x" -> "api_key=x"
      [] tok = "Token=x" -> "token=x" [] OTHER -> tok

\* SENSITIVE_PATTERN.search(tok), with re.IGNORECASE: the token holds one of
\* the keywords, in any letter case
Sensitive(tok) == Lower(tok) \in {"--password", "api_key=x", "token=x", "--auth", "monkey"}

NOISE_COMMANDS ==
    {"ls", "ll", "la", "cd", "clear", "pwd", "exit", "history", "grep", "cat",
     "echo", "top", "htop"}

\* is_valid_command without the test for sensitive keywords
is_valid_command_nosensitive(cmd) ==
    IF cmd = <<>> \/ StrLen(cmd) < 3 THEN FALSE
    ELSE IF Lower(cmd[1]) \in NOISE_COMMANDS /\ Len(cmd) = 1 THEN FALSE
    ELSE TRUE

is_valid_command(cmd) ==
    IF cmd = <<>> \/ StrLen(cmd) < 3 THEN FALSE
    ELSE IF Lower(cmd[1]) \in NOISE_COMMANDS /\ Len(cmd) = 1 THEN FALSE
    ELSE IF \E i \in 1..Len(cmd) : Sensitive(cmd[i]) THEN FALSE
    ELSE TRUE

\* the timestamp of a line of zsh's extended history, ': 1678901234:0;cmd',
\* taken as a token of its own
Stamp == "1678901234:0;"

\* clean_zsh_history_line: what follows the first ';' of a line that starts
\* with ': '
clean_zsh_history_line(line) ==
    IF Len(line) >= 2 /\ line[1] = ":" /\ line[2] = Stamp
    THEN SubSeq(line, 3, Len(line))
    ELSE line

\* f"{shell_name}_history"
history_source(shell_name) == IF shell_name = "zsh" THEN "zsh_history" ELSE "bash_history"

RECURSIVE collect_shell_history(_, _, _, _)
\* the lines of the history, last line first (the model's histories are
\* shorter than lines_to_read, so that all their lines are read): blank lines
\* are skipped, zsh's lines are cleaned, and each valid command is handed to
\* db.store_raw_command
collect_shell_history(C, shell_name, lines, t) ==
    IF lines = <<>> THEN C
    ELSE LET line == lines[Len(lines)]
             rest == SubSeq(lines, 1, Len(lines) - 1)
             cmd == IF shell_name = "zsh" THEN clean_zsh_history_line(line) ELSE line
             stored == IF line # <<>> /\ is_valid_command(cmd)
                       THEN store_raw_command(C, history_source(shell_name), cmd, t)
                       ELSE C
         IN  collect_shell_history(stored, shell_name, rest, t)

RECURSIVE collect_git_logs(_, _, _)
\* the subjects of the commits of the last 24 hours of a tracked repository,
\* as `git log` prints them: each valid one is stored behind "git commit: "
collect_git_logs(C, commits, t) ==
    IF commits = <<>> THEN C
    ELSE LET commit == commits[1]
             stored == IF is_valid_command(commit)
                       THEN store_raw_command(C, "git:repo", <<"git", "commit:">> \o commit, t)
                       ELSE C
         IN  collect_git_logs(stored, Tail(commits), t)

\* run_collection: zsh's history, bash's history, the git logs
run_collection(C, zsh, bash, commits, t) ==
    collect_git_logs(
        collect_shell_history(collect_shell_history(C, "zsh", zsh, t), "bash", bash, t),
        commits, t)

----------------------------------------------------------------------------
(* src/src/ai.py: the summarizer.  A markdown text is the sequence of its  *)
(* lines.                                                                  *)

_NOISE_COMMANDS ==
    {<<"ls">>, <<"ll">>, <<"la">>, <<"l">>, <<"cd">>, <<"pwd">>, <<"clear">>,
     <<"cls">>, <<"exit">>, <<"history">>, <<"cat">>, <<"echo">>, <<"man">>,
     <<"whoami">>, <<"date">>, <<"which">>, <<"type">>, <<"alias">>,
     <<"git", "status">>, <<"git", "log">>, <<"git", "diff">>,
     <<"git", "branch">>, <<"git", "fetch">>,
     <<"kubectl", "get", "pods">>, <<"kubectl", "get", "nodes">>,
     <<"kubectl", "get", "svc">>,
     <<"docker", "ps">>, <<"docker", "images">>, <<"top">>, <<"htop">>,
     <<"ps">>, <<"df">>, <<"du">>}

\* the body of the loop of _filter_commands
is_noise(cmd) ==
    LET base == IF cmd # <<>> THEN <<cmd[1]>> ELSE <<>>
        full_base == IF Len(cmd) <= 2 THEN cmd ELSE SubSeq(cmd, 1, 2)
        is_bare_noise == cmd \in _NOISE_COMMANDS
        is_base_noise == base \in _NOISE_COMMANDS /\ Len(cmd) < 3
        is_full_noise == full_base \in _NOISE_COMMANDS
    IN  is_bare_noise \/ is_base_noise \/ is_full_noise

MaxPromptCommands == 80
MaxFallbackCommands == 60

RECURSIVE keep_meaningful(_)
\* the loop of _filter_commands: the commands that are no noise, in their
\* order (a long list is filtered half by half)
keep_meaningful(cmds) ==
    IF cmds = <<>> THEN <<>>
    ELSE IF Len(cmds) = 1 THEN (IF is_noise(cmds[1]) THEN <<>> ELSE cmds)
    ELSE LET half == Len(cmds) \div 2
         IN  keep_meaningful(SubSeq(cmds, 1, half))
             \o keep_meaningful(SubSeq(cmds, half + 1, Len(cmds)))

\* filtered[-80:]
_filter_commands(cmds) ==
    LET filtered == keep_meaningful(cmds)
    IN  IF Len(filtered) <= MaxPromptCommands THEN filtered
        ELSE SubSeq(filtered, Len(filtered) - MaxPromptCommands + 1, Len(filtered))

Line(kind, text, n) == [kind |-> kind, text |-> text, n |-> n]
Markdown(lines) == [kind |-> "markdown", lines |-> lines]
NoSummary == [kind |-> "unset", lines |-> <<>>]
\* a JSON value that is no string, where the generated text is expected
NotAString == [kind |-> "null", lines |-> <<>>]
\* the text the API generated
Generated == Markdown(<<Line("generated", <<>>, 0)>>)

\* _generate_fallback_summary without the note on the commands left out
_generate_fallback_summary_nonote(cmds, manual_learnings, t) ==
    LET meaningful == _filter_commands(cmds)
        shown == IF Len(meaningful) <= MaxFallbackCommands THEN meaningful
                 ELSE SubSeq(meaningful, 1, MaxFallbackCommands)
    IN  Markdown(<<Line("date heading", <<>>, Days(t)), Line("blank", <<>>, 0)>>
                 \o (IF manual_learnings # <<>>
                     THEN <<Line("Learnings heading", <<>>, 0), Line("blank", <<>>, 0)>>
                          \o [i \in 1..Len(manual_learnings) |->
                                 Line("bullet", <<manual_learnings[i]>>, 0)]
                          \o <<Line("blank", <<>>, 0)>>
                     ELSE <<>>)
                 \o (IF meaningful # <<>>
                     THEN <<Line("Commands heading", <<>>, 0), Line("blank", <<>>, 0),
                            Line("fence", <<>>, 0)>>
                          \o [i \in 1..Len(shown) |-> Line("command", shown[i], 0)]
                          \o <<Line("fence", <<>>, 0), Line("blank", <<>>, 0)>>
                     ELSE <<>>)
                 \o (IF manual_learnings = <<>> /\ meaningful = <<>>
                     THEN <<Line("Nothing recorded today.", <<>>, 0)>>
                     ELSE <<>>))

_generate_fallback_summary(cmds, manual_learnings, t) ==
    LET meaningful == _filter_commands(cmds)
        shown == IF Len(meaningful) <= MaxFallbackCommands THEN meaningful
                 ELSE SubSeq(meaningful, 1, MaxFallbackCommands)
        head == <<Line("date heading", <<>>, Days(t)), Line("blank", <<>>, 0)>>
        learnt == IF manual_learnings # <<>>
                  THEN <<Line("Learnings heading", <<>>, 0), Line("blank", <<>>, 0)>>
                       \o [i \in 1..Len(manual_learnings) |->
                              Line("bullet", <<manual_learnings[i]>>, 0)]
                       \o <<Line("blank", <<>>, 0)>>
                  ELSE <<>>
        cmdsec == IF meaningful # <<>>
                  THEN <<Line("Commands heading", <<>>, 0), Line("blank", <<>>, 0), Line("fence", <<>>, 0)>>
                       \o [i \in 1..Len(shown) |-> Line("command", shown[i], 0)]
                       \o (IF Len(meaningful) > MaxFallbackCommands
                           THEN <<Line("and n more", <<>>,
                                       Len(meaningful) - MaxFallbackCommands)>>
                           ELSE <<>>)
                       \o <<Line("fence", <<>>, 0), Line("blank", <<>>, 0)>>
                  ELSE <<>>
        nothing == IF manual_learnings = <<>> /\ meaningful = <<>>
                   THEN <<Line("Nothing recorded today.", <<>>, 0)>>
                   ELSE <<>>
    IN  Markdown(head \o learnt \o cmdsec \o nothing)

\* what urlopen, response.read, json.loads and the walk to
\* result["candidates"][0]["content"]["parts"][0]["text"] can come to
NetworkOutcomes ==
    {"ok", "network_error", "timeout", "http_error", "invalid_json",
     "missing_field", "text_not_a_string"}

\* generate_daily_summary without the test for nothing meaningful
generate_daily_summary_always_post(cmds, manual_learnings, api_key, outcome, t) ==
    IF ~api_key
    THEN [posts |-> 0, value |-> _generate_fallback_summary(cmds, manual_learnings, t)]
    ELSE IF outcome = "ok" THEN [posts |-> 1, value |-> Generated]
    ELSE IF outcome = "text_not_a_string" THEN [posts |-> 1, value |-> NotAString]
    ELSE [posts |-> 1, value |-> _generate_fallback_summary(cmds, manual_learnings, t)]

\* the value returned and the number of POSTs sent; `outcome` is read only
\* when the request is sent
generate_daily_summary(cmds, manual_learnings, api_key, outcome, t) ==
    IF ~api_key
    THEN [posts |-> 0, value |-> _generate_fallback_summary(cmds, manual_learnings, t)]
    ELSE IF _filter_commands(cmds) = <<>> /\ manual_learnings = <<>>
    THEN [posts |-> 0, value |-> _generate_fallback_summary(cmds, manual_learnings, t)]
    ELSE IF outcome = "ok" THEN [posts |-> 1, value |-> Generated]
    ELSE IF outcome = "text_not_a_string" THEN [posts |-> 1, value |-> NotAString]
    ELSE [posts |-> 1, value |-> _generate_fallback_summary(cmds, manual_learnings, t)]

----------------------------------------------------------------------------
(* devlog.py: the --tags argument, a string of characters *)

TagsArgs == {<<>>, <<"a">>, <<",">>, <<"a", ",", "b">>}
Contents == {"", "tla"}

RECURSIVE split(_, _)
\* str.split(sep): the fields between the separators, empty ones included
split(s, sep) ==
    IF \A i \in 1..Len(s) : s[i] # sep THEN <<s>>
    ELSE LET k == CHOOSE i \in 1..Len(s) :
                    s[i] = sep /\ \A j \in 1..(i - 1) : s[j] # sep
         IN  <<SubSeq(s, 1, k - 1)>> \o split(SubSeq(s, k + 1, Len(s)), sep)

\* tags = args.tags.split(',') if args.tags else []
parse_tags(tagsArg) == IF tagsArg = <<>> THEN <<>> ELSE split(tagsArg, ",")

----------------------------------------------------------------------------
(* The clock *)

\* time passes: a millisecond
TickMillis ==
    /\ now' = now + 1
    /\ Millis(now') <= MaxMillis
    /\ lastOp' = [op |-> "tick"]
    /\ UNCHANGED <<learnings, learned, commands, pc, env, run, repo, tail, procs>>

\* time passes: a day
TickDay ==
    /\ now' = now + MsPerDay
    /\ Days(now') <= MaxDays
    /\ lastOp' = [op |-> "tick"]
    /\ UNCHANGED <<learnings, learned, commands, pc, env, run, repo, tail, procs>>

----------------------------------------------------------------------------
(* devlog.py: the handlers of learn and quiz, and the store's operations   *)
(* on table learnings                                                      *)

\* handle_learn without the test for empty content
HandleLearn_nocheck(content, tagsArg) ==
    /\ Len(learnings) < MaxLearnings
    /\ learnings' = add_learning(learnings, content, parse_tags(tagsArg), now)
    /\ learned' = Append(learned, [content |-> content, tags |-> parse_tags(tagsArg)])
    /\ lastOp' = [op |-> "learn", content |-> content, tags |-> parse_tags(tagsArg),
                  exit |-> 0, row_id |-> Len(learnings) + 1]
    /\ UNCHANGED <<now, commands, pc, env, run, repo, tail, procs>>

\* handle_learn: `if not args.content: ... sys.exit(1)`, then
\* row_id = db.add_learning(args.content, tags), which is printed
HandleLearn(content, tagsArg) ==
    IF content = ""
    THEN /\ lastOp' = [op |-> "learn", content |-> content, tags |-> parse_tags(tagsArg),
                       exit |-> 1, row_id |-> 0]
         /\ UNCHANGED <<now, learnings, learned, commands, pc, env, run, repo, tail, procs>>
    ELSE /\ Len(learnings) < MaxLearnings
         /\ learnings' = add_learning(learnings, content, parse_tags(tagsArg), now)
         /\ learned' = Append(learned, [content |-> content, tags |-> parse_tags(tagsArg)])
         /\ lastOp' = [op |-> "learn", content |-> content, tags |-> parse_tags(tagsArg),
                       exit |-> 0, row_id |-> learnings'[Len(learnings')].id]
         /\ UNCHANGED <<now, commands, pc, env, run, repo, tail, procs>>

\* db.get_due_flashcard()
GetDueFlashcard ==
    /\ \E card \in get_due_flashcard(learnings, now) :
          lastOp' = [op |-> "due", card |-> card]
    /\ UNCHANGED <<now, learnings, learned, commands, pc, env, run, repo, tail, procs>>

RECURSIVE TotalReviews(_)
\* the reviews recorded so far, which MaxReviews caps
TotalReviews(L) == IF L = <<>> THEN 0 ELSE L[1].review_count + TotalReviews(Tail(L))

\* db.mark_flashcard_reviewed(learning_id), for an id that may not exist
MarkFlashcardReviewed(learning_id) ==
    /\ learnings' = mark_flashcard_reviewed(learnings, learning_id, now)
    /\ TotalReviews(learnings') <= MaxReviews
    /\ lastOp' = [op |-> "reviewed", id |-> learning_id]
    /\ UNCHANGED <<now, learned, commands, pc, env, run, repo, tail, procs>>

\* how the prompt of handle_quiz ends: there is none with --auto, Enter is
\* pressed, or input() raises (end of input, Ctrl-C)
QuizAnswers == {"auto", "enter", "abort"}

\* handle_quiz that shows the card and never marks it
HandleQuiz_nomark(answer) ==
    /\ \E card \in get_due_flashcard(learnings, now) :
          lastOp' = [op |-> "quiz", card |-> card, answer |-> answer]
    /\ UNCHANGED <<now, learnings, learned, commands, pc, env, run, repo, tail, procs>>

\* handle_quiz: the due flashcard, if any, is shown; unless input() raises
\* at "Press Enter to mark as reviewed...", it is then marked reviewed
HandleQuiz(answer) ==
    /\ \E card \in get_due_flashcard(learnings, now) :
          /\ IF card = None \/ answer = "abort"
             THEN UNCHANGED learnings
             ELSE /\ learnings' = mark_flashcard_reviewed(learnings, card.id, now)
                  /\ TotalReviews(learnings') <= MaxReviews
          /\ lastOp' = [op |-> "quiz", card |-> card, answer |-> answer]
    /\ UNCHANGED <<now, learned, commands, pc, env, run, repo, tail, procs>>

\* db.get_learnings_since(days)
GetLearningsSince(days) ==
    /\ lastOp' = [op |-> "since", days |-> days,
                  rows |-> get_learnings_since(learnings, days, now),
                  after_learn |-> (lastOp.op = "learn" /\ lastOp.exit = 0)]
    /\ UNCHANGED <<now, learnings, learned, commands, pc, env, run, repo, tail, procs>>

----------------------------------------------------------------------------
(* The store's operations on table commands, called by one process *)

Sources == {"zsh_history", "bash_history"}
StoreTexts == {<<"make", "test">>, <<"git", "push">>}

\* db.store_raw_command(source, command)
StoreRawCommand(source, command) ==
    /\ commands' = store_raw_command(commands, source, command, now)
    /\ Len(commands') <= MaxCommands
    /\ lastOp' = [op |-> "store", source |-> source, command |-> command]
    /\ UNCHANGED <<now, learnings, learned, pc, env, run, repo, tail, procs>>

\* db.get_unprocessed_commands()
GetUnprocessedCommands ==
    /\ lastOp' = [op |-> "unprocessed", rows |-> get_unprocessed_commands(commands)]
    /\ UNCHANGED <<now, learnings, learned, commands, pc, env, run, repo, tail, procs>>

\* db.mark_commands_processed(command_ids), for ids that may not exist
MarkCommandsProcessed(command_ids) ==
    /\ commands' = mark_commands_processed(commands, command_ids)
    /\ lastOp' = [op |-> "processed", ids |-> command_ids]
    /\ UNCHANGED <<now, learnings, learned, pc, env, run, repo, tail, procs>>

----------------------------------------------------------------------------
(* src/src/github_sync.py: trigger_daily_sync, one statement at a time *)

NoRun ==
    [raw_commands |-> <<>>, learning_strings |-> <<>>, summary |-> NoSummary,
     posts |-> 0, outcome |-> "not_sent", trace |-> <<>>, printed |-> <<>>]

\* no sync run is under way: the CLI runs one command at a time
Idle == pc \in {"idle", "done", "crashed"}

\* the histories the run may find: up to MaxHistory lines
HistoryLines == {<<"ls">>, <<"git", "status">>, <<"make", "test">>}

RECURSIVE Histories(_)
Histories(n) ==
    IF n = 0 THEN {<<>>}
    ELSE LET shorter == Histories(n - 1)
         IN  shorter \cup {Append(h, l) : h \in shorter, l \in HistoryLines}

\* `devlog push`: handle_push calls trigger_daily_sync
StartSync(history, api_key) ==
    /\ Idle
    /\ env.runs < MaxRuns
    /\ env' = [history |-> history, api_key |-> api_key, runs |-> env.runs + 1]
    /\ run' = NoRun
    /\ pc' = "collect"
    /\ lastOp' = [op |-> "push", same_history |-> (env.runs >= 1 /\ history = env.history)]
    /\ UNCHANGED <<now, learnings, learned, commands, repo, tail, procs>>

\* collector.run_collection(): zsh's history is env.history, there is no
\* bash history and no repository is tracked
Collect ==
    /\ pc = "collect"
    /\ commands' = run_collection(commands, env.history, <<>>, <<>>, now)
    /\ run' = [run EXCEPT !.trace = Append(@, "collect")]
    /\ pc' = "read"
    /\ UNCHANGED <<now, learnings, learned, lastOp, env, repo, tail, procs>>

\* raw_commands = db.get_unprocessed_commands();
\* learnings = db.get_learnings_since(1)
ReadStore ==
    /\ pc = "read"
    /\ LET since == get_learnings_since(learnings, 1, now)
       IN  run' = [run EXCEPT !.raw_commands = get_unprocessed_commands(commands),
                              !.learning_strings = [i \in 1..Len(since) |-> since[i].content],
                              !.trace = Append(@, "read")]
    /\ pc' = "summarize"
    /\ UNCHANGED <<now, learnings, learned, commands, lastOp, env, repo, tail, procs>>

command_strings(raw_commands) == [i \in 1..Len(raw_commands) |-> raw_commands[i].command]

\* summary_md = ai.generate_daily_summary(command_strings, learning_strings)
Summarize ==
    /\ pc = "summarize"
    /\ \E outcome \in NetworkOutcomes :
          LET r == generate_daily_summary(command_strings(run.raw_commands),
                                          run.learning_strings, env.api_key, outcome, now)
          IN  run' = [run EXCEPT !.summary = r.value,
                                !.posts = @ + r.posts,
                                !.outcome = IF r.posts = 0 THEN "not_sent" ELSE outcome,
                                !.trace = Append(@, "summarize")]
    /\ pc' = "save"
    /\ UNCHANGED <<now, learnings, learned, commands, lastOp, env, repo, tail, procs>>

\* file_path = save_daily_markdown(summary_md): Path.write_text raises a
\* TypeError for a value that is no string, which nothing catches
SaveDailyMarkdown ==
    /\ pc = "save"
    /\ IF run.summary.kind = "markdown"
       THEN /\ run' = [run EXCEPT !.trace = Append(@, "write")]
            /\ pc' = "mark"
       ELSE /\ run' = [run EXCEPT !.printed = Append(@, "TypeError")]
            /\ pc' = "crashed"
    /\ UNCHANGED <<now, learnings, learned, commands, lastOp, env, repo, tail, procs>>

\* db.mark_commands_processed([c['id'] for c in raw_commands])
MarkProcessed ==
    /\ pc = "mark"
    /\ commands' = mark_commands_processed(commands,
                       {run.raw_commands[i].id : i \in 1..Len(run.raw_commands)})
    /\ run' = [run EXCEPT !.trace = Append(@, "mark")]
    /\ pc' = "commit"
    /\ UNCHANGED <<now, learnings, learned, lastOp, env, repo, tail, procs>>

\* what git_commit_and_push runs and prints, given how each git command ends
git_commit_and_push(add, commit, remote, push) ==
    IF add = "fail"
    THEN [trace |-> <<"git add">>, printed |-> <<"Git operation failed">>]
    ELSE IF commit = "nothing to commit"
    THEN [trace |-> <<"git add", "git commit">>, printed |-> <<"Nothing new to commit.">>]
    ELSE IF ~remote
    THEN [trace |-> <<"git add", "git commit">>, printed |-> <<"Committed">>]
    ELSE [trace |-> <<"git add", "git commit", "git pull", "git push">>,
          printed |-> <<"Committed", "Pushing to GitHub...",
                        IF push = "fail" THEN "Push failed" ELSE "Push complete">>]

\* git_commit_and_push(), then "Daily sync completed."
GitCommitAndPush ==
    /\ pc = "commit"
    /\ \E add \in {"ok", "fail"}, commit \in {"ok", "nothing to commit", "fail"},
          remote \in BOOLEAN, push \in {"ok", "fail"} :
          LET g == git_commit_and_push(add, commit, remote, push)
          IN  run' = [run EXCEPT !.trace = @ \o g.trace, !.printed = @ \o g.printed]
    /\ pc' = "done"
    /\ UNCHANGED <<now, learnings, learned, commands, lastOp, env, repo, tail, procs>>

----------------------------------------------------------------------------
(* src/src/ai.py: the fallback renderer and the command filter on the      *)
(* lists of commands and of learnings they may be given                    *)

\* the numbers of meaningful commands around 0, 60 and 80
RenderCounts ==
    (0..MaxExtra)
    \cup ((MaxFallbackCommands - MaxExtra)..(MaxFallbackCommands + MaxExtra))
    \cup ((MaxPromptCommands - MaxExtra)..(MaxPromptCommands + MaxExtra))

\* k commands that are noise to the summarizer
NoiseList(k) == [i \in 1..k |-> IF i % 2 = 1 THEN <<"git", "status">> ELSE <<"ls">>]

\* n meaningful commands, oldest first, with noise before and after
CommandList(n, k) ==
    NoiseList(k) \o [i \in 1..n |-> <<"make", ToString(i)>>] \o NoiseList(k)

LearningList(m) == [i \in 1..m |-> IF i % 2 = 1 THEN "tla" ELSE "sqlite"]

\* _generate_fallback_summary(commands, manual_learnings)
GenerateFallbackSummary(cmds, manual_learnings) ==
    /\ lastOp' = [op |-> "fallback", commands |-> cmds,
                  manual_learnings |-> manual_learnings,
                  summary |-> _generate_fallback_summary(cmds, manual_learnings, now)]
    /\ UNCHANGED <<now, learnings, learned, commands, pc, env, run, repo, tail, procs>>

\* the commands the filter may be given
FilterCandidates ==
    {<<"ls">>, <<"ls", "-la">>, <<"ls", "-la", "/etc/nginx">>, <<"cat", "notes.txt">>,
     <<"git", "status">>, <<"git", "status", "-s">>, <<"git", "push">>,
     <<"make", "test">>, <<"kubectl", "get", "pods">>, <<"docker", "ps", "-a">>}

\* _filter_commands(commands)
FilterCommands(cmds) ==
    /\ lastOp' = [op |-> "filter", commands |-> cmds, filtered |-> _filter_commands(cmds)]
    /\ UNCHANGED <<now, learnings, learned, commands, pc, env, run, repo, tail, procs>>

----------------------------------------------------------------------------
(* src/src/collector.py: run_collection on the histories and the git log   *)
(* it may find                                                             *)

KubectlApply == <<"kubectl", "apply", "-f", "deploy.yaml", "--force">>

\* the lines a history may hold
CandidateLines ==
    {<<>>, <<"ls">>, <<"cd">>, <<"PWD">>, <<"ls", "-la">>, <<"monkey">>,
     <<"export", "API_KEY=x">>, <<"curl", "--PASSWORD">>, KubectlApply,
     <<":", Stamp, "make", "test">>, <<":", Stamp, "pwd">>}

BashHistories == {<<>>, <<KubectlApply>>, <<(<<":", Stamp, "pwd">>)>>}
CommitLogs == {<<>>, <<(<<"fix", "tail">>)>>, <<(<<"cd">>), (<<"rotate", "Token=x">>)>>}

\* what a run may find: every zsh history alone, and some zsh histories
\* beside a bash history and a git log
CollectInputs ==
    {[zsh |-> h, bash |-> <<>>, commits |-> <<>>] :
        h \in Lists(CandidateLines, MaxCollectLines)}
    \cup {[zsh |-> z, bash |-> b, commits |-> c] :
            z \in {<<>>, <<(<<"ls">>)>>}, b \in BashHistories, c \in CommitLogs}

\* collector.run_collection()
RunCollection(zsh, bash, commits) ==
    /\ commands' = run_collection(commands, zsh, bash, commits, now)
    /\ Len(commands') <= MaxCommands
    /\ lastOp' = [op |-> "collect", read |-> Len(zsh) + Len(bash) + Len(commits),
                  stored |-> Len(commands') - Len(commands)]
    /\ UNCHANGED <<now, learnings, learned, pc, env, run, repo, tail, procs>>

----------------------------------------------------------------------------
(* src/src/collector.py: the loop of collect_shell_history that reads the  *)
(* history file from its end, one byte at a time.  A file is the sequence  *)
(* of its bytes.                                                           *)

Bytes == {"a", "b", "\n"}

RECURSIVE Files(_)
\* the files of up to n bytes
Files(n) ==
    IF n = 0 THEN {<<>>}
    ELSE LET shorter == Files(n - 1)
         IN  shorter \cup {Append(f, b) : f \in shorter, b \in Bytes}

\* no file is open
NoTail ==
    [pc |-> "closed", file |-> <<>>, lines_to_read |-> 0, pointer_location |-> 0,
     buffer |-> <<>>, lines |-> <<>>]

\* buffer[::-1]
Reverse(s) == [i \in 1..Len(s) |-> s[Len(s) + 1 - i]]

\* f.seek(offset); f.read(1): the byte at the offset, nothing at the end
read1(file, offset) == IF offset < Len(file) THEN <<file[offset + 1]>> ELSE <<>>

\* open(history_file, 'rb'); f.seek(0, os.SEEK_END);
\* pointer_location = f.tell()
TailOpen(file, lines_to_read) ==
    /\ tail.pc = "closed"
    /\ tail' = [pc |-> "loop", file |-> file, lines_to_read |-> lines_to_read,
                pointer_location |-> Len(file), buffer |-> <<>>, lines |-> <<>>]
    /\ lastOp' = [op |-> "tail"]
    /\ UNCHANGED <<now, learnings, learned, commands, pc, env, run, repo, procs>>

\* one turn of `while pointer_location >= 0 and len(lines) < lines_to_read`
TailByte ==
    /\ tail.pc = "loop"
    /\ tail.pointer_location >= 0 /\ Len(tail.lines) < tail.lines_to_read
    /\ LET new_byte == read1(tail.file, tail.pointer_location)
       IN  tail' = IF new_byte = <<"\n">>
                   THEN [tail EXCEPT !.pointer_location = @ - 1,
                                     !.lines = Append(@, Reverse(tail.buffer)),
                                     !.buffer = <<>>]
                   ELSE [tail EXCEPT !.pointer_location = @ - 1,
                                     !.buffer = @ \o new_byte]
    /\ UNCHANGED <<now, learnings, learned, commands, lastOp, pc, env, run, repo, procs>>

\* the loop is left: `if buffer: lines.append(buffer[::-1])`
TailEnd ==
    /\ tail.pc = "loop"
    /\ ~(tail.pointer_location >= 0 /\ Len(tail.lines) < tail.lines_to_read)
    /\ tail' = [tail EXCEPT !.pc = "done",
                            !.lines = IF tail.buffer # <<>>
                                      THEN Append(@, Reverse(tail.buffer)) ELSE @]
    /\ UNCHANGED <<now, learnings, learned, commands, lastOp, pc, env, run, repo, procs>>

RECURSIVE NonBlank(_)
\* `line = line.strip(); if not line: continue`: the lines handed on
NonBlank(lines) ==
    IF lines = <<>> THEN <<>>
    ELSE IF lines[1] = <<>> THEN NonBlank(Tail(lines))
    ELSE <<lines[1]>> \o NonBlank(Tail(lines))

----------------------------------------------------------------------------
(* src/src/github_sync.py: the publisher and its repository.  The working  *)
(* tree and a commit's tree are sets of files, a file being a path and a   *)
(* content; the sync run above passes the publisher its summary, here any  *)
(* markdown content may be passed.                                         *)

DaysPerYear == 365
MarkdownContents == {"A", "B"}

NoRepo == [dir |-> FALSE, git |-> FALSE, worktree |-> {}, head |-> {}, commits |-> 0]

\* repo_dir / str(now.year) / f"{now.strftime('%m-%d')}.md": the year and
\* the day in the year
file_path(t) == <<Days(t) \div DaysPerYear, Days(t) % DaysPerYear>>

\* Path.write_text: the file is created or its content replaced
write_text(files, path, content) ==
    {f \in files : f.path # path} \cup {[path |-> path, content |-> content]}

\* setup_devlog_repo: a missing directory is created and `git init` runs in
\* it with check=True, outside any try: its failure raises CalledProcessError
\* and leaves a directory that is no repository
setup_devlog_repo(R, init) ==
    IF R.dir THEN [repo |-> R, raised |-> FALSE]
    ELSE IF init = "ok" THEN [repo |-> [R EXCEPT !.dir = TRUE, !.git = TRUE], raised |-> FALSE]
    ELSE [repo |-> [R EXCEPT !.dir = TRUE], raised |-> TRUE]

\* save_daily_markdown(markdown_content)
save_daily_markdown(R, markdown_content, init, t) ==
    LET s == setup_devlog_repo(R, init)
    IN  IF s.raised THEN s
        ELSE [repo |-> [s.repo EXCEPT !.worktree = write_text(@, file_path(t), markdown_content)],
              raised |-> FALSE]

\* how `git add .` can end: it fails outside a repository
AddOutcomes(R) == IF R.git THEN {"ok", "fail"} ELSE {"fail"}

\* how `git commit` can end once everything is staged: with nothing staged
\* that HEAD does not have it exits 1, saying "nothing to commit" or, under
\* another locale, the same in another language ("fail": a non-zero exit
\* without these words); with changes staged it commits or fails (a hook,
\* a lock, no identity)
CommitOutcomes(R) ==
    IF R.worktree = R.head THEN {"nothing to commit", "fail"} ELSE {"ok", "fail"}

\* save_daily_markdown(markdown_content) on the repository
PublishSave(markdown_content) ==
    /\ \E init \in {"ok", "fail"} :
          LET s == save_daily_markdown(repo, markdown_content, init, now)
          IN  /\ repo' = s.repo
              /\ lastOp' = [op |-> "save", content |-> markdown_content,
                            path |-> file_path(now), raised |-> s.raised]
    /\ UNCHANGED <<now, learnings, learned, commands, pc, env, run, tail, procs>>

\* git_commit_and_push() on the repository: setup_devlog_repo() is called
\* before the try; a successful commit makes the working tree the new HEAD
PublishCommit ==
    /\ \E init \in {"ok", "fail"}, remote \in BOOLEAN, push \in {"ok", "fail"} :
          LET s == setup_devlog_repo(repo, init)
          IN  IF s.raised
              THEN /\ repo' = s.repo
                   /\ lastOp' = [op |-> "commit", raised |-> TRUE, add |-> "not run",
                                 commit |-> "not run", clean |-> FALSE,
                                 trace |-> <<>>, printed |-> <<>>]
              ELSE \E add \in AddOutcomes(s.repo), commit \in CommitOutcomes(s.repo) :
                      LET g == git_commit_and_push(add, commit, remote, push)
                          committed == add = "ok" /\ commit = "ok"
                      IN  /\ repo' = IF committed
                                     THEN [s.repo EXCEPT !.head = s.repo.worktree,
                                                         !.commits = @ + 1]
                                     ELSE s.repo
                          /\ repo'.commits <= MaxCommits
                          /\ lastOp' = [op |-> "commit", raised |-> FALSE, add |-> add,
                                        commit |-> IF add = "ok" THEN commit ELSE "not run",
                                        clean |-> (s.repo.worktree = s.repo.head),
                                        trace |-> g.trace, printed |-> g.printed]
    /\ UNCHANGED <<now, learnings, learned, commands, pc, env, run, tail, procs>>

----------------------------------------------------------------------------
(* src/src/db.py: store_raw_command called by two CLI processes at once.   *)
(* Each process has its own connection; the SELECT and the INSERT are two  *)
(* statements, each atomic, and the SELECT holds no lock once it returned. *)

Procs == {1, 2}

Outside == [pc |-> "outside", source |-> "", command |-> <<>>, found |-> FALSE]

\* no process is inside store_raw_command
NoProcs == [p \in Procs |-> Outside]

\* cursor.execute(SELECT id FROM commands WHERE command = ? AND processed = 0);
\* cursor.fetchone()
select_unprocessed(C, command) ==
    \E i \in 1..Len(C) : C[i].command = command /\ ~C[i].processed

\* cursor.execute(INSERT INTO commands (source, command) VALUES (?, ?))
insert_command(C, source, command, t) ==
    Append(C, [id |-> Len(C) + 1, source |-> source, command |-> command,
               timestamp |-> CURRENT_TIMESTAMP(t), processed |-> FALSE])

\* process p enters store_raw_command(source, command) and runs the SELECT
RaceSelect(p, source, command) ==
    /\ procs[p].pc = "outside"
    /\ procs' = [procs EXCEPT ![p] = [pc |-> "selected", source |-> source,
                                      command |-> command,
                                      found |-> select_unprocessed(commands, command)]]
    /\ lastOp' = [op |-> "select", proc |-> p]
    /\ UNCHANGED <<now, learnings, learned, commands, pc, env, run, repo, tail>>

\* the INSERT made only after a second look at the table, as under a lock
\* held since the SELECT
RaceInsert_locked(p) ==
    /\ procs[p].pc = "selected"
    /\ commands' = IF select_unprocessed(commands, procs[p].command) THEN commands
                   ELSE insert_command(commands, procs[p].source, procs[p].command, now)
    /\ Len(commands') <= MaxCommands
    /\ procs' = [procs EXCEPT ![p] = Outside]
    /\ lastOp' = [op |-> "insert", proc |-> p]
    /\ UNCHANGED <<now, learnings, learned, pc, env, run, repo, tail>>

\* process p goes on: `if not cursor.fetchone(): INSERT`, then commit and
\* close
RaceInsert(p) ==
    /\ procs[p].pc = "selected"
    /\ commands' = IF procs[p].found THEN commands
                   ELSE insert_command(commands, procs[p].source, procs[p].command, now)
    /\ Len(commands') <= MaxCommands
    /\ procs' = [procs EXCEPT ![p] = Outside]
    /\ lastOp' = [op |-> "insert", proc |-> p]
    /\ UNCHANGED <<now, learnings, learned, pc, env, run, repo, tail>>


----------------------------------------------------------------------------
(* Specifications *)

Init ==
    /\ now = 0
    /\ learnings = <<>>
    /\ learned = <<>>
    /\ commands = <<>>
    /\ lastOp = [op |-> "init"]
    /\ pc = "idle"
    /\ env = [history |-> <<>>, api_key |-> FALSE, runs |-> 0]
    /\ run = NoRun
    /\ repo = NoRepo
    /\ tail = NoTail
    /\ procs = NoProcs

\* learn and the queries by age, with every --tags argument
NextJournal ==
    \/ TickMillis
    \/ TickDay
    \/ \E content \in Contents, tagsArg \in TagsArgs : HandleLearn(content, tagsArg)
    \/ \E days \in 0..MaxSinceDays : GetLearningsSince(days)

SpecJournal == Init /\ [][NextJournal]_vars

\* learn and the flashcard review
NextReview ==
    \/ TickMillis
    \/ TickDay
    \/ \E content \in Contents : HandleLearn(content, <<>>)
    \/ GetDueFlashcard
    \/ \E id \in 1..(MaxLearnings + 1) : MarkFlashcardReviewed(id)
    \/ \E answer \in QuizAnswers : HandleQuiz(answer)

SpecReview == Init /\ [][NextReview]_vars

\* learn and quiz, as the CLI runs them
NextQuiz ==
    \/ TickMillis
    \/ TickDay
    \/ HandleLearn("tla", <<>>)
    \/ \E answer \in QuizAnswers : HandleQuiz(answer)

SpecQuiz == Init /\ [][NextQuiz]_vars

\* the store's operations on table commands
NextStore ==
    \/ TickDay
    \/ \E source \in Sources, command \in StoreTexts : StoreRawCommand(source, command)
    \/ GetUnprocessedCommands
    \/ \E ids \in SUBSET (1..(MaxCommands + 1)) : MarkCommandsProcessed(ids)

SpecStore == Init /\ [][NextStore]_vars

\* the daily sync, with learn between the runs
NextSync ==
    \/ Idle /\ HandleLearn("tla", <<>>)
    \/ \E history \in Histories(MaxHistory), api_key \in BOOLEAN : StartSync(history, api_key)
    \/ Collect
    \/ ReadStore
    \/ Summarize
    \/ SaveDailyMarkdown
    \/ MarkProcessed
    \/ GitCommitAndPush

SpecSync == Init /\ [][NextSync]_vars

\* the publisher on its repository, day after day
NextPublish ==
    \/ TickDay
    \/ \E markdown_content \in MarkdownContents : PublishSave(markdown_content)
    \/ PublishCommit

SpecPublish == Init /\ [][NextPublish]_vars

\* the fallback renderer, day after day
NextRender ==
    \/ TickDay
    \/ \E n \in RenderCounts, k \in 0..MaxExtra, m \in 0..MaxLearnings :
          GenerateFallbackSummary(CommandList(n, k), LearningList(m))

SpecRender == Init /\ [][NextRender]_vars

\* the summarizer's filter on every short list of commands
NextFilter ==
    \E cmds \in Lists(FilterCandidates, MaxFilterCommands) : FilterCommands(cmds)

SpecFilter == Init /\ [][NextFilter]_vars

\* the collector, run after run, and the marking of what it stored
NextCollect ==
    \/ \E found \in CollectInputs :
          RunCollection(found.zsh, found.bash, found.commits)
    \/ \E ids \in SUBSET (1..MaxCommands) : MarkCommandsProcessed(ids)

SpecCollect == Init /\ [][NextCollect]_vars

\* store_raw_command called by two processes, their statements interleaved
NextRace ==
    \/ \E p \in Procs, source \in Sources, command \in StoreTexts :
          RaceSelect(p, source, command)
    \/ \E p \in Procs : RaceInsert(p)

SpecRace == Init /\ [][NextRace]_vars

\* the history-tail reader on every small file
NextTail ==
    \/ \E file \in Files(MaxFileBytes), n \in 0..MaxTailLines : TailOpen(file, n)
    \/ TailByte
    \/ TailEnd

SpecTail == Init /\ [][NextTail]_vars

----------------------------------------------------------------------------
(* Claims about table learnings *)

\* C6: learn with empty content fails and stores no row; with non-empty
\* content it appends exactly one learning, leaves the others as they were
\* and returns the new row's identifier, which no other row has; no stored
\* learning ever has empty content.
C6_AddLearning ==
    /\ [](\A i \in 1..Len(learnings) : learnings[i].content # "")
    /\ [][lastOp'.op = "learn" =>
            IF lastOp'.content = ""
            THEN lastOp'.exit = 1 /\ learnings' = learnings
            ELSE /\ lastOp'.exit = 0
                 /\ Len(learnings') = Len(learnings) + 1
                 /\ SubSeq(learnings', 1, Len(learnings)) = learnings
                 /\ learnings'[Len(learnings')].content = lastOp'.content
                 /\ learnings'[Len(learnings')].id = lastOp'.row_id
                 /\ \A i \in 1..Len(learnings) : learnings[i].id # lastOp'.row_id]_vars

\* a learn with empty content has just failed, after another one was stored
C6_Witness ==
    /\ lastOp.op = "learn" /\ lastOp.exit = 1 /\ lastOp.content = ""
    /\ Len(learnings) >= 1

\* C7: get_due_flashcard returns none when every learning was reviewed
\* within 3 days of now; otherwise it returns a learning reviewed more than
\* 3 days ago, and none of those was reviewed earlier than it.
C7_DueFlashcard ==
    lastOp.op = "due" =>
        LET card == lastOp.card
            Within(r) == now - r.last_reviewed <= 3 * 86400 * 1000
            rows == Range(learnings)
        IN  /\ (\A r \in rows : Within(r)) => card = None
            /\ (\E r \in rows : ~Within(r)) =>
                  /\ card \in rows
                  /\ ~Within(card)
                  /\ \A r \in rows : ~Within(r) => card.last_reviewed <= r.last_reviewed
            /\ card # None => now - card.last_reviewed >= 3 * 86400 * 1000

\* two learnings are due, and the one returned was reviewed before the other
C7_Witness ==
    /\ lastOp.op = "due" /\ lastOp.card # None
    /\ \E r \in Range(learnings) :
          /\ IsDue(r, now)
          /\ r.last_reviewed > lastOp.card.last_reviewed

\* C8: mark_flashcard_reviewed(id) sets the last-reviewed timestamp of the
\* learning with that id to the current second and adds 1 to its review
\* count; its other columns and every other learning stay as they were, and
\* an id no learning has changes nothing.
C8_MarkReviewed ==
    [][lastOp'.op = "reviewed" =>
        /\ Len(learnings') = Len(learnings)
        /\ \A i \in 1..Len(learnings) :
              IF learnings[i].id = lastOp'.id
              THEN learnings'[i] =
                     [learnings[i] EXCEPT !.last_reviewed = now - (now % 1000),
                                          !.review_count = learnings[i].review_count + 1]
              ELSE learnings'[i] = learnings[i]]_vars

\* a learning was just marked reviewed for the second time, at a time that
\* is not a whole second, beside a learning never reviewed
C8_Witness ==
    /\ lastOp.op = "reviewed"
    /\ now % 1000 # 0
    /\ \E i, j \in 1..Len(learnings) :
          /\ learnings[i].id = lastOp.id
          /\ learnings[i].review_count = 2
          /\ learnings[i].last_reviewed = now - (now % 1000)
          /\ learnings[j].review_count = 0

\* C10, as stated: learn followed at once by get_learnings_since(d), for
\* any d >= 0, returns the new row with the content and the tags given.
C10_AnyDays ==
    (lastOp.op = "since" /\ lastOp.after_learn) =>
        \E k \in 1..Len(lastOp.rows) :
            /\ lastOp.rows[k].id = Len(learnings)
            /\ lastOp.rows[k].content = learned[Len(learned)].content
            /\ json_loads(lastOp.rows[k].tags) = learned[Len(learned)].tags

\* C10, amended: get_learnings_since(d) returns every learning whose
\* creation timestamp (the second it was inserted in) is at most d days
\* before now, with the content and, once deserialized, the tags given.
C10_RoundTrip ==
    lastOp.op = "since" =>
        \A i \in 1..Len(learnings) :
            now - learnings[i].timestamp <= lastOp.days * 86400 * 1000 =>
                \E k \in 1..Len(lastOp.rows) :
                    /\ lastOp.rows[k].id = i
                    /\ lastOp.rows[k].content = learned[i].content
                    /\ json_loads(lastOp.rows[k].tags) = learned[i].tags

\* a learning with two tags, stored within a second that had begun, comes
\* back from get_learnings_since(1) right after the insert
C10_Witness ==
    /\ lastOp.op = "since" /\ lastOp.after_learn /\ lastOp.days = 1
    /\ now % 1000 # 0
    /\ Len(lastOp.rows) >= 1
    /\ lastOp.rows[1].id = Len(learnings)
    /\ json_loads(lastOp.rows[1].tags) = <<(<<"a">>), (<<"b">>)>>

----------------------------------------------------------------------------
(* Claims about table commands *)

\* C1: with store_raw_command and mark_commands_processed called by one
\* process, no two unprocessed rows of table commands have the same command
\* text.
C1_NoDuplicateUnprocessed ==
    \A i, j \in 1..Len(commands) :
        (i # j /\ ~commands[i].processed /\ ~commands[j].processed)
            => commands[i].command # commands[j].command

\* two unprocessed rows with different texts, the last call having been
\* refused because the first of them has its text
C1_Witness ==
    /\ lastOp.op = "store"
    /\ Len(commands) = 2
    /\ ~commands[1].processed /\ ~commands[2].processed
    /\ commands[1].command # commands[2].command
    /\ lastOp.command = commands[1].command

\* C2: store_raw_command with a text that an unprocessed row already has
\* changes nothing; with a text no unprocessed row has (no row at all, or
\* only rows marked processed) it appends one unprocessed row with that
\* text; either way exactly one unprocessed row has the text afterwards.
C2_StoreTwice ==
    [][lastOp'.op = "store" =>
        LET c == lastOp'.command
            have == {i \in 1..Len(commands) : commands[i].command = c /\ ~commands[i].processed}
        IN  /\ have # {} => commands' = commands
            /\ have = {} =>
                  /\ Len(commands') = Len(commands) + 1
                  /\ SubSeq(commands', 1, Len(commands)) = commands
                  /\ commands'[Len(commands')].command = c
                  /\ ~commands'[Len(commands')].processed
            /\ Cardinality({i \in 1..Len(commands') :
                              commands'[i].command = c /\ ~commands'[i].processed}) = 1]_vars

\* the text of a row marked processed has just been stored again, in a new
\* unprocessed row
C2_Witness ==
    /\ lastOp.op = "store"
    /\ Len(commands) >= 2
    /\ commands[Len(commands)].command = lastOp.command
    /\ ~commands[Len(commands)].processed
    /\ \E i \in 1..(Len(commands) - 1) :
          commands[i].command = lastOp.command /\ commands[i].processed

\* C9: mark_commands_processed(ids) sets processed on the rows whose id is
\* in ids and changes nothing else, nothing at all for no ids; no operation
\* of the store deletes a command row, changes its id, source, text or
\* timestamp, or clears its processed flag.
C9_MarkProcessed ==
    /\ [][lastOp'.op = "processed" =>
            /\ Len(commands') = Len(commands)
            /\ \A i \in 1..Len(commands) :
                  commands'[i] = IF commands[i].id \in lastOp'.ids
                                 THEN [commands[i] EXCEPT !.processed = TRUE]
                                 ELSE commands[i]
            /\ lastOp'.ids = {} => commands' = commands]_vars
    /\ [][/\ Len(commands') >= Len(commands)
          /\ \A i \in 1..Len(commands) :
                /\ commands'[i].id = commands[i].id
                /\ commands'[i].source = commands[i].source
                /\ commands'[i].command = commands[i].command
                /\ commands'[i].timestamp = commands[i].timestamp
                /\ commands[i].processed => commands'[i].processed]_vars

\* one of two unprocessed rows has just been marked processed, the ids
\* given naming also a row that does not exist
C9_Witness ==
    /\ lastOp.op = "processed"
    /\ \E i, j \in 1..Len(commands) :
          /\ commands[i].id \in lastOp.ids /\ commands[i].processed
          /\ commands[j].id \notin lastOp.ids /\ ~commands[j].processed
    /\ \E id \in lastOp.ids : id > Len(commands)

----------------------------------------------------------------------------
(* Claims about the daily sync *)

Before(a, b) ==
    \A k \in 1..Len(run.trace) :
        run.trace[k] = b => \E i \in 1..(k - 1) : run.trace[i] = a

\* C3: in a sync run, collecting comes before reading the store, reading
\* before summarizing, summarizing before writing the file, and the
\* commands are marked processed only after the file was written and
\* git_commit_and_push has committed and pushed.
C3_MarkAfterPublish ==
    /\ Before("collect", "read")
    /\ Before("read", "summarize")
    /\ Before("summarize", "write")
    /\ Before("write", "mark")
    /\ Before("git add", "mark")

\* C4: generate_daily_summary returns a markdown text whatever the network
\* call comes to, and the fallback rendering of the same commands and
\* learnings whenever the call did not yield a generated text.
C4_AlwaysMarkdown ==
    (run.trace # <<>> /\ run.trace[Len(run.trace)] = "summarize") =>
        /\ run.summary.kind = "markdown"
        /\ run.outcome \in (NetworkOutcomes \ {"ok"}) =>
              run.summary = _generate_fallback_summary(command_strings(run.raw_commands),
                                                       run.learning_strings, now)

\* C5: a sync run sends at most one POST; it sends none when no API key
\* resolves or when no command survives the filter and there is no manual
\* learning, and the summary is then the fallback rendering.
C5_AtMostOnePost ==
    /\ run.posts <= 1
    /\ (/\ \E k \in 1..Len(run.trace) : run.trace[k] = "summarize"
        /\ \/ ~env.api_key
           \/ /\ \A i \in 1..Len(run.raw_commands) : is_noise(run.raw_commands[i].command)
              /\ run.learning_strings = <<>>)
       => /\ run.posts = 0
          /\ run.summary = _generate_fallback_summary(command_strings(run.raw_commands),
                                                      run.learning_strings, now)

\* with an API key, the only unprocessed command is noise to the summarizer
\* and there is no learning: nothing was sent
C5_Witness ==
    /\ pc = "save"
    /\ env.api_key
    /\ Len(run.raw_commands) = 1
    /\ run.learning_strings = <<>>
    /\ run.posts = 0

----------------------------------------------------------------------------
(* Claims about the publisher *)

\* C11: save_daily_markdown writes the content to the file of the current
\* year and day, replacing what the file held and leaving the other files;
\* and when git_commit_and_push follows a write after which the files staged
\* are those HEAD already has (the day's content was written again
\* unchanged), it stops after the commit step without error: no commit is
\* made, nothing is pulled or pushed.
C11_IdempotentPublish ==
    /\ [][(lastOp'.op = "save" /\ ~lastOp'.raised) =>
            /\ lastOp'.path = <<(now \div 86400000) \div 365, (now \div 86400000) % 365>>
            /\ repo'.worktree =
                  {f \in repo.worktree : f.path # lastOp'.path}
                      \cup {[path |-> lastOp'.path, content |-> lastOp'.content]}]_vars
    /\ [][(/\ lastOp.op = "save" /\ ~lastOp.raised
            /\ lastOp'.op = "commit" /\ lastOp'.add = "ok" /\ lastOp'.clean) =>
            /\ lastOp'.printed = <<"Nothing new to commit.">>
            /\ lastOp'.trace = <<"git add", "git commit">>
            /\ repo'.commits = repo.commits
            /\ repo'.head = repo.head]_vars

\* C12: no failure of a git command run by the publisher comes out of it as
\* an exception, and a failed `git add` is logged.
C12_NoGitFailurePropagates ==
    /\ lastOp.op \in {"save", "commit"} => ~lastOp.raised
    /\ (lastOp.op = "commit" /\ lastOp.add = "fail") =>
          lastOp.printed = <<"Git operation failed">>

\* C19: git_commit_and_push reports "Committed" and goes on to pull and push
\* only after a `git commit` that succeeded.
C19_CommittedOnlyAfterCommit ==
    (lastOp.op = "commit" /\ lastOp.commit # "ok") =>
        /\ \A k \in 1..Len(lastOp.printed) : lastOp.printed[k] # "Committed"
        /\ \A k \in 1..Len(lastOp.trace) : lastOp.trace[k] \notin {"git pull", "git push"}

----------------------------------------------------------------------------
(* Claims about the collector *)

\* C13: for a file of L lines and a count N the reader yields the last
\* min(N, L) lines of the file, last line first, whether or not the file ends
\* with a newline; a line is what a newline ends, or what follows the last
\* newline when that is not empty, and blank lines are left aside.
C13_LastLines ==
    tail.pc = "done" =>
        LET pieces == split(tail.file, "\n")
            file_lines == IF pieces[Len(pieces)] = <<>>
                          THEN SubSeq(pieces, 1, Len(pieces) - 1) ELSE pieces
            L == Len(file_lines)
            n == IF tail.lines_to_read < L THEN tail.lines_to_read ELSE L
            last == SubSeq(file_lines, L - n + 1, L)
        IN  NonBlank(tail.lines) = NonBlank([i \in 1..n |-> last[n + 1 - i]])

\* the filter as the claim has it: a candidate is rejected when it is empty
\* or shorter than 3 characters, when it is one bare no-op command, or when
\* one of its words holds a sensitive keyword in any letter case
C14_Rejected(c) ==
    \/ c = <<>>
    \/ StrLen(c) < 3
    \/ Len(c) = 1 /\ Lower(c[1]) \in NOISE_COMMANDS
    \/ \E i \in 1..Len(c) :
          c[i] \in {"--password", "--PASSWORD", "API_KEY=x", "Token=x", "TOKEN=x",
                    "--auth", "monkey"}

\* C14: every command that run_collection has stored passed the validity
\* filter, as a candidate and as the text stored (a commit subject is stored
\* behind "git commit: "); the filter rejects exactly the candidates that are
\* empty or under 3 characters, a bare no-op command, or hold a sensitive
\* keyword: it rejects "ls" and "cd" and accepts the kubectl command.
C14_ValidityFilter ==
    /\ \A i \in 1..Len(commands) :
          LET c == commands[i].command
          IN  /\ ~C14_Rejected(c)
              /\ commands[i].source = "git:repo" => ~C14_Rejected(SubSeq(c, 3, Len(c)))
    /\ \A c \in CandidateLines \cup {<<"rotate", "Token=x">>, <<"fix", "tail">>, <<"pwd">>} :
          is_valid_command(c) <=> ~C14_Rejected(c)
    /\ ~is_valid_command(<<"ls">>) /\ ~is_valid_command(<<"cd">>)
    /\ ~is_valid_command(<<"curl", "--PASSWORD">>)
    /\ is_valid_command(<<"kubectl", "apply", "-f", "deploy.yaml", "--force">>)

\* a collection has just read three candidates and stored two of them, the
\* kubectl command from a history and a commit subject
C14_Witness ==
    /\ lastOp.op = "collect" /\ lastOp.read = 3 /\ lastOp.stored = 2
    /\ \E i, j \in 1..Len(commands) :
          /\ commands[i].command = <<"kubectl", "apply", "-f", "deploy.yaml", "--force">>
          /\ commands[j].source = "git:repo"

----------------------------------------------------------------------------
(* Claims about the summarizer *)

\* the lines of a kind, in their order
C15_Of(lines, kinds) ==
    LET idx == {i \in 1..Len(lines) : lines[i].kind \in kinds}
        nth(k) == CHOOSE i \in idx : Cardinality({j \in idx : j <= i}) = k
    IN  [k \in 1..Cardinality(idx) |-> lines[nth(k)]]

\* C15: the fallback rendering starts with the heading of the current date;
\* it has a Learnings section, with one bullet for each manual learning,
\* exactly when there is a manual learning, and after it a Commands section
\* exactly when a command survives the filter, listing the first 60 of the
\* surviving commands, with a note of how many more there are exactly when
\* there are more than 60; with no surviving command and no learning it is
\* the date heading, a blank line and "Nothing recorded today.".
C15_FallbackRendering ==
    lastOp.op = "fallback" =>
        LET lines == lastOp.summary.lines
            kept == _filter_commands(lastOp.commands)
            n == IF Len(kept) < 60 THEN Len(kept) ELSE 60
            sections == C15_Of(lines, {"date heading", "Learnings heading", "Commands heading",
                                       "Nothing recorded today."})
            listed == C15_Of(lines, {"command"})
            bullets == C15_Of(lines, {"bullet"})
            notes == C15_Of(lines, {"and n more"})
        IN  /\ lastOp.summary.kind = "markdown"
            /\ lines[1] = [kind |-> "date heading", text |-> <<>>, n |-> now \div 86400000]
            /\ [i \in 1..Len(sections) |-> sections[i].kind] =
                  <<"date heading">>
                  \o (IF lastOp.manual_learnings # <<>> THEN <<"Learnings heading">> ELSE <<>>)
                  \o (IF kept # <<>> THEN <<"Commands heading">> ELSE <<>>)
                  \o (IF lastOp.manual_learnings = <<>> /\ kept = <<>>
                      THEN <<"Nothing recorded today.">> ELSE <<>>)
            /\ [i \in 1..Len(bullets) |-> bullets[i].text[1]] = lastOp.manual_learnings
            /\ [i \in 1..Len(listed) |-> listed[i].text] = SubSeq(kept, 1, n)
            /\ IF Len(kept) > 60
               THEN Len(notes) = 1 /\ notes[1].n = Len(kept) - 60
               ELSE notes = <<>>
            /\ \A i, j \in 1..Len(lines) :
                  (lines[i].kind = "bullet" /\ lines[j].kind = "command") => i < j
            /\ (lastOp.manual_learnings = <<>> /\ kept = <<>>) =>
                  [i \in 1..Len(lines) |-> lines[i].kind] =
                      <<"date heading", "blank", "Nothing recorded today.">>

\* 80 commands survive the filter beside two learnings: 60 are listed and
\* the note says 20 more
C15_Witness ==
    /\ lastOp.op = "fallback"
    /\ Len(lastOp.manual_learnings) = 2
    /\ \E i \in 1..Len(lastOp.summary.lines) :
          /\ lastOp.summary.lines[i].kind = "and n more"
          /\ lastOp.summary.lines[i].n = 20
    /\ Cardinality({i \in 1..Len(lastOp.summary.lines) :
                       lastOp.summary.lines[i].kind = "command"}) = 60

----------------------------------------------------------------------------
(* Claims about concurrent processes *)

\* C16: nothing holds back a process between its SELECT and its INSERT in
\* store_raw_command: a process whose SELECT found no unprocessed row with
\* its text inserts one, whatever another process has inserted since, and one
\* whose SELECT found a row inserts nothing; so two processes storing the
\* same text can both insert.
C16_CheckThenInsert ==
    [][\A p \in Procs :
          (procs[p].pc = "selected" /\ procs'[p].pc = "outside") =>
              IF procs[p].found
              THEN commands' = commands
              ELSE /\ Len(commands') = Len(commands) + 1
                   /\ SubSeq(commands', 1, Len(commands)) = commands
                   /\ commands'[Len(commands')].command = procs[p].command
                   /\ ~commands'[Len(commands')].processed]_vars

\* two unprocessed rows have the same command text
C16_Witness ==
    /\ lastOp.op = "insert"
    /\ \E i, j \in 1..Len(commands) :
          /\ i < j
          /\ commands[i].command = commands[j].command
          /\ ~commands[i].processed /\ ~commands[j].processed

\* C17: _filter_commands drops a command only if it is an entry of the noise
\* list, if its first two words are one, or if it is a single word; a
\* command whose first word is a noise command and which has an argument
\* (two words or more) is kept.
C17_KeepsNoiseWithArgument ==
    lastOp.op = "filter" =>
        \A k \in 1..Len(lastOp.commands) :
            LET cmd == lastOp.commands[k]
                kept == \E i \in 1..Len(lastOp.filtered) : lastOp.filtered[i] = cmd
            IN  /\ ~kept => \/ Len(cmd) < 2
                            \/ cmd \in _NOISE_COMMANDS
                            \/ SubSeq(cmd, 1, 2) \in _NOISE_COMMANDS
                /\ (<<cmd[1]>> \in _NOISE_COMMANDS /\ Len(cmd) >= 2) => kept

----------------------------------------------------------------------------
(* Claims about successive sync runs *)

\* C18: a sync run that finds the shell history as the run before left it
\* hands the summarizer no command that an earlier run summarized and marked
\* processed.
C18_SummarizedOnce ==
    (lastOp.op = "push" /\ lastOp.same_history /\ pc = "summarize") =>
        \A k \in 1..Len(run.raw_commands) :
            ~\E i \in 1..Len(commands) :
                /\ commands[i].processed
                /\ commands[i].command = run.raw_commands[k].command

----------------------------------------------------------------------------
(* Claims about quiz *)

\* C20, as stated: every quiz invocation that finds a due learning marks it
\* reviewed; and a learning found within 3 days of an earlier invocation that
\* showed another learning was already due at that invocation (so that with
\* k learnings due, the invocations of the next 3 days show these k and
\* nothing else).
C20_EachDueOnce ==
    (lastOp.op = "quiz" /\ lastOp.card # None) =>
        /\ \E i \in 1..Len(learnings) :
              /\ learnings[i].id = lastOp.card.id
              /\ learnings[i].review_count = lastOp.card.review_count + 1
        /\ \A i \in 1..Len(learnings) :
              (/\ learnings[i].id # lastOp.card.id
               /\ learnings[i].review_count >= 1
               /\ now - learnings[i].last_reviewed <= 3 * 86400 * 1000)
                  => learnings[i].last_reviewed + 999 - lastOp.card.last_reviewed
                        > 3 * 86400 * 1000

\* the learnings due at a time
C20_Due(L, t) == {i \in 1..Len(L) : t - L[i].last_reviewed > 3 * 86400 * 1000}

\* C20, amended: a quiz invocation that finds a due learning and is not
\* aborted at its prompt marks that learning reviewed and no other, which
\* leaves one learning less due; an invocation that is aborted or finds none
\* due changes nothing; it finds none exactly when none is due; and a
\* learning it finds was never reviewed or was reviewed more than 3 days
\* before.
C20_QuizMarksDue ==
    /\ [][lastOp'.op = "quiz" =>
            LET card == lastOp'.card
            IN  /\ card = None <=> C20_Due(learnings, now) = {}
                /\ (card = None \/ lastOp'.answer = "abort") => learnings' = learnings
                /\ (card # None /\ lastOp'.answer # "abort") =>
                      /\ card.id \in C20_Due(learnings, now)
                      /\ C20_Due(learnings', now) = C20_Due(learnings, now) \ {card.id}
                      /\ Len(learnings') = Len(learnings)
                      /\ \A i \in 1..Len(learnings) :
                            IF i = card.id
                            THEN /\ learnings'[i].review_count = learnings[i].review_count + 1
                                 /\ learnings'[i].last_reviewed = now - (now % 1000)
                            ELSE learnings'[i] = learnings[i]]_vars
    /\ [](lastOp.op = "quiz" /\ lastOp.card # None =>
            now - lastOp.card.last_reviewed > 3 * 86400 * 1000)

\* two learnings were due and two invocations have shown one each; the
\* third has just found none due
C20_Witness ==
    /\ lastOp.op = "quiz" /\ lastOp.card = None
    /\ Len(learnings) = 2
    /\ \A i \in 1..2 :
          /\ learnings[i].review_count = 1
          /\ now - learnings[i].last_reviewed <= 3 * 86400 * 1000

====
